---- MODULE Spec2Model ----
(***************************************************************************)
(* Control-flow-graph construction and cyclomatic complexity of cyclo.py.  *)
(*                                                                         *)
(* A syntax-tree node is a record [kind, body, elif_, else_].  kind is the *)
(* class of the jinja2 node as CFGraph.__follow_node tells classes apart:  *)
(*   "If"     jinja2.nodes.If   (body, elif_, else_ are followed; the test *)
(*            expression is not)                                           *)
(*   "For"    jinja2.nodes.For  (body, else_ are followed)                 *)
(*   "Simple" Template, Output, TemplateData, Name, ... ; body stands for  *)
(*            iter_child_nodes()                                           *)
(*   "Macro"  a statement the tool declares out of scope (macros,          *)
(*            includes, ...); body stands for iter_child_nodes()           *)
(* Trees are enumerated over Simple, If and For nodes; Macro nodes, which   *)
(* the builder handles by the same branch as Simple nodes, appear in the   *)
(* macro templates.                                                        *)
(* A graph node is referred to by its id (Python object identity).         *)
(***************************************************************************)
EXTENDS Integers, Sequences, FiniteSets, TLC

VARIABLES ast, pc, nodes, edges, next_node_id, next_edge_id,
          start_node, end_node, returns, complexity

vars == <<ast, pc, nodes, edges, next_node_id, next_edge_id,
          start_node, end_node, returns, complexity>>

\* ---------------------------------------------------------------- bounds
MaxNodes == 4
MaxSimpleNodes == 5
MaxElif == 2
MaxBodyLen == 3

\* ----------------------------------------------------------- syntax trees
Node(k, b, l, e) == [kind |-> k, body |-> b, elif_ |-> l, else_ |-> e]

\* the ast_node of the terminal node (Python None)
None == Node("None", <<>>, <<>>, <<>>)

\* The table of syntax trees: tbl[m + 1] is level m, a record of
\*   trees    the trees with m syntax nodes
\*   forests  the ordered sequences of trees with m syntax nodes in total
\*   elifs    the elif_ lists with m syntax nodes in total; the parser puts
\*            in elif_ only If nodes that have no elif_ and no else_

\* the trees with n syntax nodes, given the levels 0..n-1
TreesAt(tbl, n) ==
    LET F(m) == tbl[m + 1].forests
        E(m) == tbl[m + 1].elifs
    IN  { Node("Simple", b, <<>>, <<>>) : b \in F(n - 1) }
        \cup UNION { { Node("For", b, <<>>, e) :
                         b \in F(a), e \in F(n - 1 - a) }
                     : a \in 0..(n - 1) }
        \cup UNION { { Node("If", b, l, e) :
                         b \in F(p[1]), l \in E(p[2]),
                         e \in F(n - 1 - p[1] - p[2]) }
                     : p \in { q \in (0..(n - 1)) \X (0..(n - 1)) :
                                 q[1] + q[2] <= n - 1 } }

\* level n, given the levels 0..n-1
TreeLevel(tbl, n) ==
    LET F(m) == tbl[m + 1].forests
        E(m) == tbl[m + 1].elifs
        trees == TreesAt(tbl, n)
        T(k) == IF k = n THEN trees ELSE tbl[k + 1].trees
    IN  [trees   |-> trees,
         forests |-> UNION { { <<t>> \o f : t \in T(k), f \in F(n - k) }
                             : k \in 1..n },
         elifs   |-> UNION { { <<Node("If", b, <<>>, <<>>)>> \o f :
                                 b \in F(k - 1), f \in E(n - k) }
                             : k \in 1..n }]

RECURSIVE TreeTable(_)
\* the levels 0..n
TreeTable(n) ==
    IF n = 0 THEN << [trees |-> {}, forests |-> {<<>>}, elifs |-> {<<>>}] >>
    ELSE LET tbl == TreeTable(n - 1) IN Append(tbl, TreeLevel(tbl, n))

\* the trees of Simple, If and For nodes with 1..MaxNodes syntax nodes
Trees ==
    LET tbl == TreeTable(MaxNodes - 1)
    IN  UNION { tbl[m + 1].trees : m \in 1..(MaxNodes - 1) }
        \cup TreesAt(tbl, MaxNodes)

RECURSIVE SimpleForests(_)
\* forests of Simple nodes only, n nodes in total
SimpleForests(n) ==
    IF n = 0 THEN {<<>>}
    ELSE UNION { { <<Node("Simple", b, <<>>, <<>>)>> \o f :
                     b \in SimpleForests(k - 1), f \in SimpleForests(n - k) }
                 : k \in 1..n }

\* {{ 'A' }}-like output: an Output node holding one data node
Output == Node("Simple", <<Node("Simple", <<>>, <<>>, <<>>)>>, <<>>, <<>>)
Outputs(n) == [i \in 1..n |-> Output]
Template(b) == Node("Simple", b, <<>>, <<>>)

\* {% if %}..{% elif %}..{% else %}..{% endif %} templates
IfTemplates ==
    { Template(Outputs(pre) \o
               <<Node("If", Outputs(b),
                      [i \in 1..k |-> Node("If", Outputs(eb), <<>>, <<>>)],
                      Outputs(e))>>) :
        pre \in 0..1, b \in 0..MaxBodyLen, k \in 0..MaxElif,
        eb \in 0..1, e \in 0..1 }

\* {% for %}..{% else %}..{% endfor %} templates
ForTemplates ==
    { Template(<<Node("For", Outputs(b), <<>>, Outputs(e))>> \o Outputs(post)) :
        b \in 0..MaxBodyLen, e \in 0..1, post \in 0..1 }

\* {% macro %}..{% endmacro %} at the top of a template or inside an
\* {% if %}, around any content of up to MaxNodes - 2 syntax nodes
MacroTemplates ==
    LET tbl == TreeTable(MaxNodes - 2)
        B   == UNION { tbl[m + 1].forests : m \in 0..(MaxNodes - 2) }
    IN  { Template(<<Node("Macro", b, <<>>, <<>>)>>) : b \in B }
        \cup { Template(<<Node("If", <<Node("Macro", b, <<>>, <<>>)>>, <<>>, <<>>)>>) :
                 b \in tbl[1].forests \cup tbl[2].forests }

Inputs ==
    Trees \cup MacroTemplates
    \cup UNION { { Template(b) : b \in SimpleForests(n - 1) } : n \in 1..MaxSimpleNodes }
    \cup IfTemplates \cup ForTemplates

\* ------------------------------------------------------------ graph store
\* g is the CFGraph under construction: the private fields of the object
\* plus the log of what each __follow_node call returned
NewGraph == [nodes |-> <<>>, edges |-> <<>>,
             next_node_id |-> 1, next_edge_id |-> 1, returns |-> <<>>]

_register_node(g, ast_node) ==
    [g EXCEPT !.nodes = Append(@, [id |-> g.next_node_id, ast_node |-> ast_node]),
              !.next_node_id = @ + 1]

_register_edge(g, from_node, to_node) ==
    [g EXCEPT !.edges = Append(@, [id |-> g.next_edge_id,
                                   from_node |-> from_node, to_node |-> to_node]),
              !.next_edge_id = @ + 1]

\* CFNode(self, ast_node): the new node is the one with id g.next_node_id
CFNode(g, ast_node) == _register_node(g, ast_node)

CFEdge(g, from_node, to_node) == _register_edge(g, from_node, to_node)

RECURSIVE link_tails(_, _, _)
\* variant: the loop runs over tails[1:] and the first tail is never linked
link_tails_skip_first(g, tails, to_node) ==
    LET RECURSIVE link_rest(_, _)
        link_rest(h, ts) ==
            IF ts = <<>> THEN h
            ELSE link_rest(CFEdge(h, Head(ts), to_node), Tail(ts))
    IN  IF tails = <<>> THEN g ELSE link_rest(g, Tail(tails))

\* for tail in tails: CFEdge(self, tail, to_node)
link_tails(g, tails, to_node) ==
    IF tails = <<>> THEN g
    ELSE link_tails(CFEdge(g, Head(tails), to_node), Tail(tails), to_node)

RECURSIVE link_back(_, _, _)
\* for tail in tails: CFEdge(self, tail, cfg_node)     (loop back-edges)
link_back(g, tails, cfg_node) ==
    IF tails = <<>> THEN g
    ELSE link_back(CFEdge(g, Head(tails), cfg_node), Tail(tails), cfg_node)

\* ------------------------------------------------------------ CFG builder
RECURSIVE follow_node(_, _)

RECURSIVE children_loop(_, _, _)
\* variant: tails.extend(new_tails) instead of tails = new_tails
children_loop_keep_tails(g, ast_children, tails) ==
    IF ast_children = <<>> THEN [g |-> g, tails |-> tails]
    ELSE LET r  == follow_node(g, Head(ast_children))
             g2 == link_tails(r.g, tails, r.head)
         IN  children_loop(g2, Tail(ast_children), tails \o r.tails)

\* the for loop of __follow_children, tails being the loop variable
children_loop(g, ast_children, tails) ==
    IF ast_children = <<>> THEN [g |-> g, tails |-> tails]
    ELSE LET r  == follow_node(g, Head(ast_children))
             g2 == link_tails(r.g, tails, r.head)
         IN  children_loop(g2, Tail(ast_children), r.tails)

follow_children(g, ast_child_iter, cfg_node) ==
    children_loop(g, ast_child_iter, <<cfg_node>>)

follow_simple_node(g, ast_node, cfg_node) ==
    LET r == follow_children(g, ast_node.body, cfg_node)
    IN  IF r.tails = <<>> THEN [g |-> r.g, tails |-> <<cfg_node>>] ELSE r

RECURSIVE elif_loop(_, _, _, _)
\* variant: the edge from the if node to the elif node is forgotten
elif_loop_no_edge(g, elifs, cfg_node, tails) ==
    IF elifs = <<>> THEN [g |-> g, tails |-> tails]
    ELSE LET r == follow_node(g, Head(elifs))
         IN  elif_loop(r.g, Tail(elifs), cfg_node, tails \o r.tails)

\* for ast_elif_child in ast_node.elif_: ...
elif_loop(g, elifs, cfg_node, tails) ==
    IF elifs = <<>> THEN [g |-> g, tails |-> tails]
    ELSE LET r  == follow_node(g, Head(elifs))
             g2 == CFEdge(r.g, cfg_node, r.head)
         IN  elif_loop(g2, Tail(elifs), cfg_node, tails \o r.tails)

\* variant: the else_ body is never followed
follow_if_node_no_else(g, ast_node, cfg_node) ==
    LET b == follow_children(g, ast_node.body, cfg_node)
    IN  elif_loop(b.g, ast_node.elif_, cfg_node, b.tails)

\* variant: tails = else_tails instead of tails.extend(else_tails)
follow_if_node_else_replaces(g, ast_node, cfg_node) ==
    LET b == follow_children(g, ast_node.body, cfg_node)
        l == elif_loop(b.g, ast_node.elif_, cfg_node, b.tails)
    IN  IF ast_node.else_ # <<>>
        THEN follow_children(l.g, ast_node.else_, cfg_node)
        ELSE l

\* variant: the else_ body is followed without the test "if ast_node.else_"
follow_if_node_always_else(g, ast_node, cfg_node) ==
    LET b == follow_children(g, ast_node.body, cfg_node)
        l == elif_loop(b.g, ast_node.elif_, cfg_node, b.tails)
        e == follow_children(l.g, ast_node.else_, cfg_node)
    IN  [g |-> e.g, tails |-> l.tails \o e.tails]

follow_if_node(g, ast_node, cfg_node) ==
    LET b == follow_children(g, ast_node.body, cfg_node)
        l == elif_loop(b.g, ast_node.elif_, cfg_node, b.tails)
    IN  IF ast_node.else_ # <<>>
        THEN LET e == follow_children(l.g, ast_node.else_, cfg_node)
             IN  [g |-> e.g, tails |-> l.tails \o e.tails]
        ELSE l

\* variant: the tails of the body are not connected back to the head
follow_for_node_no_back_edge(g, ast_node, cfg_node) ==
    LET b == follow_children(g, ast_node.body, cfg_node)
    IN  IF ast_node.else_ # <<>>
        THEN LET e == follow_children(b.g, ast_node.else_, cfg_node)
             IN  [g |-> e.g, tails |-> b.tails \o e.tails]
        ELSE [g |-> b.g, tails |-> b.tails]

\* variant: without an else_ body the head itself is added to the tails
\* (the "zero iterations" path)
follow_for_node_head_exits(g, ast_node, cfg_node) ==
    LET b  == follow_children(g, ast_node.body, cfg_node)
        g2 == link_back(b.g, b.tails, cfg_node)
    IN  IF ast_node.else_ # <<>>
        THEN LET e == follow_children(g2, ast_node.else_, cfg_node)
             IN  [g |-> e.g, tails |-> b.tails \o e.tails]
        ELSE [g |-> g2, tails |-> b.tails \o <<cfg_node>>]

follow_for_node(g, ast_node, cfg_node) ==
    LET b  == follow_children(g, ast_node.body, cfg_node)
        g2 == link_back(b.g, b.tails, cfg_node)
    IN  IF ast_node.else_ # <<>>
        THEN LET e == follow_children(g2, ast_node.else_, cfg_node)
             IN  [g |-> e.g, tails |-> b.tails \o e.tails]
        ELSE [g |-> g2, tails |-> b.tails]

follow_node(g, ast_node) ==
    LET this_node == g.next_node_id
        g1 == CFNode(g, ast_node)
        r  == IF ast_node.kind = "If" THEN follow_if_node(g1, ast_node, this_node)
              ELSE IF ast_node.kind = "For" THEN follow_for_node(g1, ast_node, this_node)
              ELSE follow_simple_node(g1, ast_node, this_node)
    IN  [g |-> [r.g EXCEPT !.returns = Append(@, [head |-> this_node, tails |-> r.tails])],
         head |-> this_node, tails |-> r.tails]

\* ---------------------------------------------------------------- actions
Init ==
    /\ ast \in Inputs
    /\ pc = "init"
    /\ nodes = <<>>
    /\ edges = <<>>
    /\ next_node_id = 1
    /\ next_edge_id = 1
    /\ start_node = 0
    /\ end_node = 0
    /\ returns = <<>>
    /\ complexity = 0

\* the body of CFGraph.__init__: the graph after construction, with its
\* start and end node
construct(ast_root) ==
    LET r  == follow_node(NewGraph, ast_root)
        t  == r.g.next_node_id
        g1 == CFNode(r.g, None)
        g2 == link_tails(g1, r.tails, t)
    IN  [g |-> g2, start_node |-> r.head, end_node |-> t]

\* CFGraph.__init__
CFGraph_init ==
    /\ pc = "init"
    /\ \E c \in {construct(ast)} :
           /\ nodes' = c.g.nodes
           /\ edges' = c.g.edges
           /\ next_node_id' = c.g.next_node_id
           /\ next_edge_id' = c.g.next_edge_id
           /\ returns' = c.g.returns
           /\ start_node' = c.start_node
           /\ end_node' = c.end_node
    /\ pc' = "built"
    /\ UNCHANGED <<ast, complexity>>

get_cyclomatic_complexity ==
    /\ pc = "built"
    /\ complexity' = Len(edges) - Len(nodes) + 2
    /\ pc' = "done"
    /\ UNCHANGED <<ast, nodes, edges, next_node_id, next_edge_id,
                   start_node, end_node, returns>>

Next == CFGraph_init \/ get_cyclomatic_complexity

Spec == Init /\ [][Next]_vars
\* ------------------------------------------------ vocabulary of the claims
RECURSIVE CountKind(_, _), CountKindSeq(_, _)
\* number of syntax nodes of kind k in the tree t
CountKind(t, k) ==
    (IF t.kind = k THEN 1 ELSE 0)
    + CountKindSeq(t.body, k) + CountKindSeq(t.elif_, k) + CountKindSeq(t.else_, k)
CountKindSeq(s, k) ==
    IF s = <<>> THEN 0 ELSE CountKind(Head(s), k) + CountKindSeq(Tail(s), k)

TreeSize(t) ==
    CountKind(t, "Simple") + CountKind(t, "If") + CountKind(t, "For")
    + CountKind(t, "Macro")

RECURSIVE SubNodes(_)
\* the syntax nodes of the tree t
SubNodes(t) ==
    {t} \cup UNION { SubNodes(t.body[i]) : i \in DOMAIN t.body }
        \cup UNION { SubNodes(t.elif_[i]) : i \in DOMAIN t.elif_ }
        \cup UNION { SubNodes(t.else_[i]) : i \in DOMAIN t.else_ }

OnlySimple(t) == CountKind(t, "Simple") = TreeSize(t)

Built == pc \in {"built", "done"}

NodeIds == { nodes[i].id : i \in DOMAIN nodes }

AstOf(id) == nodes[id].ast_node

RECURSIVE ReachableFrom(_)
\* graph nodes reachable from the set S along directed edges
ReachableFrom(S) ==
    LET T == S \cup { edges[i].to_node : i \in { j \in DOMAIN edges : edges[j].from_node \in S } }
    IN  IF T = S THEN S ELSE ReachableFrom(T)

OutEdges(id) == { i \in DOMAIN edges : edges[i].from_node = id }

Distinct(s) == \A i, j \in DOMAIN s : s[i] = s[j] => i = j

\* ------------------------------------------------------------------ claims

\* C1: a tree made of Simple nodes only (any number, nesting and fan-out)
\* has complexity edge_count - node_count + 2 = 1.
C1_SimpleOnlyIsOne ==
    (pc = "done" /\ OnlySimple(ast)) => complexity = 1

C1_Witness ==
    /\ pc = "done" /\ OnlySimple(ast) /\ complexity = 1
    /\ TreeSize(ast) >= 4
    /\ \E t \in SubNodes(ast) : Len(t.body) >= 2
    /\ \E t \in SubNodes(ast) : t # ast /\ t.body # <<>>

\* the Conditionals of the tree that have a default/else branch and whose
\* elif chain holds every other Conditional of the tree, no Loop and no
\* out-of-scope statement being anywhere
LoneIfElse(t) ==
    { m \in SubNodes(t) :
        /\ m.kind = "If" /\ m.else_ # <<>>
        /\ CountKind(t, "If") = 1 + Len(m.elif_)
        /\ CountKind(t, "For") = 0 /\ CountKind(t, "Macro") = 0 }

\* C2: one Conditional with an else branch and k >= 0 elif Conditionals in
\* its elif chain, everything else Simple: the complexity is k + 2.
C2_IfElseElif ==
    pc = "done" => \A m \in LoneIfElse(ast) : complexity = Len(m.elif_) + 2

C2_Witness ==
    /\ pc = "done"
    /\ \E m \in LoneIfElse(ast) :
         /\ Len(m.elif_) = 2 /\ m.body # <<>> /\ m.elif_[1].body # <<>>
         /\ complexity = 4
    /\ ast.kind = "Simple"

C2_WitnessNoElif ==
    /\ pc = "done"
    /\ \E m \in LoneIfElse(ast) : m.elif_ = <<>> /\ m.body # <<>> /\ complexity = 2

\* the Conditionals with one non-empty body, no elif and no else that are
\* the only non-Simple node of the tree
LoneIfNoElse(t) ==
    { m \in SubNodes(t) :
        /\ m.kind = "If" /\ m.body # <<>> /\ m.elif_ = <<>> /\ m.else_ = <<>>
        /\ CountKind(t, "If") = 1
        /\ CountKind(t, "For") = 0 /\ CountKind(t, "Macro") = 0 }

\* C3: the template "{% if x %}A{% endif %}" (one Conditional with a single
\* non-empty body of Simple nodes, no elif, no else) has complexity 2.
C3_IfWithoutElseIsTwo ==
    (pc = "done" /\ ast.kind = "Simple") => \A m \in LoneIfNoElse(ast) : complexity = 2

\* the Loops with a non-empty body that are the only non-Simple node
LoneFor(t) ==
    { l \in SubNodes(t) :
        /\ l.kind = "For" /\ l.body # <<>>
        /\ CountKind(t, "For") = 1
        /\ CountKind(t, "If") = 0 /\ CountKind(t, "Macro") = 0 }

\* C4: one Loop with a non-empty body of Simple nodes, everything else
\* Simple: complexity 2 without an empty-case branch (for every body
\* length), 3 with one.
C4_LoopTwoOrThree ==
    pc = "done" =>
        \A l \in LoneFor(ast) : complexity = IF l.else_ = <<>> THEN 2 ELSE 3

C4_Witness ==
    /\ pc = "done"
    /\ \E l \in LoneFor(ast) : l.else_ = <<>> /\ Len(l.body) = MaxBodyLen /\ complexity = 2

C4_WitnessElse ==
    /\ pc = "done"
    /\ \E l \in LoneFor(ast) : l.else_ # <<>> /\ Len(l.body) >= 2 /\ complexity = 3

\* C5: a syntax node that is none of Simple, Conditional, Loop makes the
\* construction fail: no graph is produced, and no graph node is ever made
\* for such a syntax node.
C5_UnsupportedFails ==
    /\ CountKind(ast, "Macro") > 0 => ~Built
    /\ \A i \in DOMAIN nodes : nodes[i].ast_node.kind # "Macro"

\* C6: in a finished graph every node but the end node is the source of at
\* least one edge.
C6_NoOrphanHeads ==
    Built => \A id \in NodeIds : id # end_node => OutEdges(id) # {}

C6_Witness ==
    /\ Built
    /\ \E t \in SubNodes(ast) : t.kind = "If" /\ t.body = <<>> /\ t.else_ = <<>>
    /\ \E t \in SubNodes(ast) : t.kind = "For" /\ t.body = <<>>
    /\ \A id \in NodeIds : id # end_node => OutEdges(id) # {}

\* C7: in a finished graph every node is reachable from the start node.
C7_AllReachable ==
    Built => ReachableFrom({start_node}) = NodeIds

C7_Witness ==
    /\ Built
    /\ \E t \in SubNodes(ast) : t.kind = "If" /\ t.elif_ # <<>>
    /\ \E t \in SubNodes(ast) : t.kind = "For" /\ t.body # <<>>
    /\ end_node \in ReachableFrom({start_node})
    /\ Cardinality(ReachableFrom({start_node})) = Len(nodes)

\* C8: a finished graph has node_count >= 2 and edge_count >= node_count - 1.
C8_CountBounds ==
    Built => Len(nodes) >= 2 /\ Len(edges) >= Len(nodes) - 1

C8_Witness ==
    Built /\ Len(nodes) = 2 /\ Len(edges) = 1

C8_WitnessLarge ==
    Built /\ Len(nodes) >= 6 /\ Len(edges) = Len(nodes) - 1

\* the returns of the visits of Conditionals and Loops that have no
\* default/else (empty-case) branch
NoElseReturns ==
    { i \in DOMAIN returns :
        /\ AstOf(returns[i].head).kind \in {"If", "For"}
        /\ AstOf(returns[i].head).else_ = <<>> }

HeadInTails(r) == \E j \in DOMAIN r.tails : r.tails[j] = r.head

\* graph nodes made for the syntax nodes strictly below the one of head
\* (ids are given in visiting order)
Below(head) == (head + 1)..(head + TreeSize(AstOf(head)) - 1)

\* C9 as stated: a Conditional without else, or a Loop without empty-case
\* branch, is never in the tail set returned for it, whatever its bodies
\* contain.
C9_HeadNeverTail ==
    Built => \A i \in NoElseReturns : ~HeadInTails(returns[i])

\* C9 amended: ... provided its body is not empty: then the head is not in
\* the tail set returned for it, and every edge leaving the head ends inside
\* the construct (none goes to the successor).
C9_HeadNeverTailNonEmptyBody ==
    Built =>
        \A i \in NoElseReturns :
            AstOf(returns[i].head).body # <<>> =>
                /\ ~HeadInTails(returns[i])
                /\ \A e \in OutEdges(returns[i].head) :
                       edges[e].to_node \in Below(returns[i].head)

C9_Witness ==
    /\ Built
    /\ \E i \in NoElseReturns :
         /\ AstOf(returns[i].head).kind = "If"
         /\ AstOf(returns[i].head).body # <<>>
         /\ AstOf(returns[i].head).elif_ # <<>>
         /\ ~HeadInTails(returns[i])
    /\ \E i \in NoElseReturns :
         /\ AstOf(returns[i].head).kind = "For"
         /\ AstOf(returns[i].head).body # <<>>
         /\ ~HeadInTails(returns[i])

\* C10: no returned tail list holds a graph node twice, and no finished
\* graph holds two edges with the same (source, destination) pair.
C10_NoDuplicates ==
    Built =>
        /\ \A i \in DOMAIN returns : Distinct(returns[i].tails)
        /\ \A i, j \in DOMAIN edges :
               (edges[i].from_node = edges[j].from_node
                /\ edges[i].to_node = edges[j].to_node) => i = j

C10_Witness ==
    /\ Built
    /\ \E t \in SubNodes(ast) :
         t.kind = "For" /\ t.body = <<>> /\ t.else_ # <<>>
    /\ \E t \in SubNodes(ast) : t.kind = "If" /\ t.body = <<>>
    /\ \E i \in DOMAIN returns : Len(returns[i].tails) >= 2
    /\ \A i \in DOMAIN returns : Distinct(returns[i].tails)
====
